---------------------------- MODULE Spec2Model ----------------------------
(***************************************************************************)
(* A model of the discrete-time PID controller of src/pid.rs (PID::new,    *)
(* bound_integral, bound_output, step) and of its twin in src/lib.rs       *)
(* (new, bound_integral, bound_output, update).                            *)
(*                                                                         *)
(* Numbers.  The controller is generic over T: FloatCore (f32 / f64).  A   *)
(* value of T is modelled as a pair <<n, d>>:                              *)
(*    d > 0, gcd(|n|, d) = 1   the finite value n / d                      *)
(*    <<1, 0>>, <<-1, 0>>      +infinity, -infinity                        *)
(*    <<0, 0>>                 NaN                                         *)
(* Finite arithmetic is exact (no rounding, one zero) up to MaxFinite, the  *)
(* largest finite value of T: a result beyond it overflows to the infinity *)
(* of its sign.  The special values follow IEEE 754: inf - inf = NaN,      *)
(* 0 * inf = NaN, every ordered comparison with NaN is false.              *)
(***************************************************************************)
EXTENDS Integers, Sequences, FiniteSets, TLC

----------------------------------------------------------------------------
(* The numeric type T *)

Abs(n) == IF n < 0 THEN -n ELSE n

Sign(n) == IF n < 0 THEN -1 ELSE IF n > 0 THEN 1 ELSE 0

RECURSIVE Gcd(_, _)
Gcd(a, b) == IF b = 0 THEN a ELSE Gcd(b, a % b)

\* the largest finite value of T (T::max_value()), scaled down
MaxFinite == 1000

\* n / d brought to the canonical form; d may be negative or zero.  A
\* magnitude above MaxFinite overflows to infinity.
Norm(n, d) ==
    IF d = 0 THEN <<Sign(n), 0>>
    ELSE IF Abs(n) > MaxFinite * Abs(d) THEN <<Sign(d) * Sign(n), 0>>
    ELSE LET g == Gcd(Abs(n), Abs(d))
         IN  <<(Sign(d) * n) \div g, Abs(d) \div g>>

Num(n) == <<n, 1>>

zero == Num(0)

infinity == <<1, 0>>

neg_infinity == <<-1, 0>>

NaN == <<0, 0>>

IsNaN(x) == x = NaN

IsFinite(x) == x[2] # 0

Neg(x) == <<-x[1], x[2]>>

Add(x, y) ==
    IF x[2] = 0 /\ y[2] = 0
    THEN (IF x = y THEN x ELSE NaN)
    ELSE Norm(x[1] * y[2] + y[1] * x[2], x[2] * y[2])

Sub(x, y) == Add(x, Neg(y))

Mul(x, y) == Norm(x[1] * y[1], x[2] * y[2])

Div(x, y) == Norm(x[1] * y[2], x[2] * y[1])

\* x < y, false as soon as one side is NaN
Lt(x, y) ==
    /\ ~IsNaN(x)
    /\ ~IsNaN(y)
    /\ IF x[2] = 0 /\ y[2] = 0 THEN x[1] < y[1]
       ELSE x[1] * y[2] < y[1] * x[2]

\* x <= y, false as soon as one side is NaN
Le(x, y) == ~IsNaN(x) /\ ~IsNaN(y) /\ ~Lt(y, x)

\* debug_assert!(min <= max) of num_traits::clamp
ClampAssert(min, max) == Le(min, max)

\* num_traits::clamp(input, min, max)
clamp(input, min, max) ==
    IF Lt(input, min) THEN min
    ELSE IF Lt(max, input) THEN max
    ELSE input

----------------------------------------------------------------------------
(* src/pid.rs *)

two == Num(2)

half == <<1, 2>>

\* new forgetting the factor one half of the integral gain
NewWithoutHalf(kp, ki, kd, tau, sampling_time, sp) ==
    [ setpoint    |-> sp,
      error       |-> zero,
      integral    |-> zero,
      derivative  |-> zero,
      measurement |-> zero,
      p    |-> kp,
      i    |-> Mul(ki, sampling_time),
      d    |-> Mul(Neg(two), kd),
      t    |-> Div(Sub(Mul(two, tau), sampling_time),
                   Add(Mul(two, tau), sampling_time)),
      imin |-> neg_infinity,
      imax |-> infinity,
      omin |-> neg_infinity,
      omax |-> infinity ]

new(kp, ki, kd, tau, sampling_time, sp) ==
    [ setpoint    |-> sp,
      error       |-> zero,
      integral    |-> zero,
      derivative  |-> zero,
      measurement |-> zero,
      p    |-> kp,
      i    |-> Mul(Mul(half, ki), sampling_time),
      d    |-> Mul(Neg(two), kd),
      t    |-> Div(Sub(Mul(two, tau), sampling_time),
                   Add(Mul(two, tau), sampling_time)),
      imin |-> neg_infinity,
      imax |-> infinity,
      omin |-> neg_infinity,
      omax |-> infinity ]

\* assert!(min <= max)
\* the assertion rejecting only min > max
BoundAssertGreater(min, max) == ~Lt(max, min)

\* assert!(min <= max)
BoundAssert(min, max) == Le(min, max)

\* bound_integral writing the pair before it checks it
BoundIntegralWriteFirst(self, min, max) ==
    [self EXCEPT !.imin = min, !.imax = max]

\* bound_integral writing the output pair (a copy of bound_output's body)
BoundIntegralWritesOutput(self, min, max) ==
    IF BoundAssert(min, max)
    THEN [self EXCEPT !.omin = min, !.omax = max]
    ELSE self

\* bound_integral applying the new pair to the stored integral at once
BoundIntegralClampsNow(self, min, max) ==
    IF BoundAssert(min, max)
    THEN [self EXCEPT !.imin = min, !.imax = max,
                      !.integral = clamp(self.integral, min, max)]
    ELSE self

\* The controller after bound_integral(min, max); a failed assertion unwinds
\* before any field is written.
bound_integral(self, min, max) ==
    IF BoundAssert(min, max)
    THEN [self EXCEPT !.imin = min, !.imax = max]
    ELSE self

\* bound_output without its assertion
BoundOutputUnchecked(self, min, max) ==
    [self EXCEPT !.omin = min, !.omax = max]

bound_output(self, min, max) ==
    IF BoundAssert(min, max)
    THEN [self EXCEPT !.omin = min, !.omax = max]
    ELSE self

\* the error with its operands exchanged
StepErrorReversed(self, measurement) == Sub(measurement, self.setpoint)

\* let error = self.setpoint - measurement
StepError(self, measurement) == Sub(self.setpoint, measurement)

\* step storing the accumulated integral without clamping it
StepIntegralUnclamped(self, measurement) ==
    Add(Mul(self.i, Add(StepError(self, measurement), self.error)),
        self.integral)

\* step clamping the integral with the output bounds
StepIntegralOutputBounds(self, measurement) ==
    clamp(StepIntegralUnclamped(self, measurement), self.omin, self.omax)

\* step leaving the integral as it was whenever the output saturates
StepIntegralFrozenOnSaturation(self, measurement) ==
    LET error      == StepError(self, measurement)
        integral   == clamp(StepIntegralUnclamped(self, measurement),
                            self.imin, self.imax)
        derivative == Add(Mul(self.d, Sub(measurement, self.measurement)),
                          Mul(self.t, self.derivative))
        sum        == Add(Add(Mul(self.p, error), integral), derivative)
    IN  IF Lt(sum, self.omin) \/ Lt(self.omax, sum)
        THEN self.integral
        ELSE integral

\* self.integral after step
StepIntegral(self, measurement) ==
    LET error    == StepError(self, measurement)
        integral == Add(Mul(self.i, Add(error, self.error)), self.integral)
    IN  clamp(integral, self.imin, self.imax)

\* step taking the derivative of the error instead of the measurement
StepDerivativeOnError(self, measurement) ==
    Add(Mul(self.d, Sub(StepError(self, measurement), self.error)),
        Mul(self.t, self.derivative))

\* self.derivative after step
StepDerivative(self, measurement) ==
    Add(Mul(self.d, Sub(measurement, self.measurement)),
        Mul(self.t, self.derivative))

\* the sum that step clamps into its return value
StepOutputRaw(self, measurement) ==
    LET proportional == Mul(self.p, StepError(self, measurement))
    IN  Add(Add(proportional, StepIntegral(self, measurement)),
            StepDerivative(self, measurement))

\* step returning the sum without clamping it
StepOutputUnclamped(self, measurement) == StepOutputRaw(self, measurement)

\* the value step returns
StepOutput(self, measurement) ==
    clamp(StepOutputRaw(self, measurement), self.omin, self.omax)

\* The controller after step(measurement): the only fields step assigns are
\* integral and derivative.
step(self, measurement) ==
    [self EXCEPT !.integral   = StepIntegral(self, measurement),
                 !.derivative = StepDerivative(self, measurement)]

----------------------------------------------------------------------------
(* src/lib.rs *)

one_half == <<1, 2>>

lib_new(kp, ki, kd, tau, sampling_time, sp) ==
    [ setpoint    |-> sp,
      error       |-> zero,
      integral    |-> zero,
      derivative  |-> zero,
      measurement |-> zero,
      kp   |-> kp,
      ki   |-> Mul(Mul(ki, sampling_time), one_half),
      kd   |-> Mul(kd, Neg(two)),
      tc   |-> Div(Sub(Mul(two, tau), sampling_time),
                   Add(Mul(two, tau), sampling_time)),
      imin |-> neg_infinity,
      imax |-> infinity,
      omin |-> neg_infinity,
      omax |-> infinity ]

lib_bound_integral(self, min, max) ==
    IF Le(min, max)
    THEN [self EXCEPT !.imin = min, !.imax = max]
    ELSE self

lib_bound_output(self, min, max) ==
    IF Le(min, max)
    THEN [self EXCEPT !.omin = min, !.omax = max]
    ELSE self

UpdateIntegral(self, measurement) ==
    LET error    == Sub(self.setpoint, measurement)
        integral == Add(Mul(self.ki, Add(error, self.error)), self.integral)
    IN  clamp(integral, self.imin, self.imax)

UpdateDerivative(self, measurement) ==
    Add(Mul(self.kd, Sub(measurement, self.measurement)),
        Mul(self.tc, self.derivative))

UpdateOutput(self, measurement) ==
    LET error        == Sub(self.setpoint, measurement)
        proportional == Mul(self.kp, error)
        output       == Add(Add(proportional, UpdateIntegral(self, measurement)),
                            UpdateDerivative(self, measurement))
    IN  clamp(output, self.omin, self.omax)

\* update storing the sample it was given, as the field comments announce
UpdateStoresSample(self, measurement) ==
    [self EXCEPT !.integral    = UpdateIntegral(self, measurement),
                 !.derivative  = UpdateDerivative(self, measurement),
                 !.error       = Sub(self.setpoint, measurement),
                 !.measurement = measurement]

update(self, measurement) ==
    [self EXCEPT !.integral   = UpdateIntegral(self, measurement),
                 !.derivative = UpdateDerivative(self, measurement)]

----------------------------------------------------------------------------
(* Bounds and input sets *)

\* number of step calls explored
MaxSteps == 3

\* number of configuration calls (bound setters and setpoint writes) explored
MaxConfig == 2

Kp == {Num(1)}

Ki == {Num(0), Num(1)}

Kd == {Num(1)}

Tau == {Num(0), Num(3)}

SamplingTime == {Num(2)}

Setpoints == {Num(0), Num(1)}

Measurements == {Num(0), Num(1), NaN}

\* <<min, max>> arguments of bound_integral; the last fails the assertion
IntegralBoundArgs == {<<Num(-1), Num(1)>>, <<Num(1), Num(1)>>,
                      <<Num(1), Num(-1)>>}

\* <<min, max>> arguments of bound_output; the last two fail the assertion
OutputBoundArgs == {<<Num(-1), Num(1)>>, <<Num(1), Num(-1)>>, <<NaN, Num(1)>>}

----------------------------------------------------------------------------
(* The state machine *)

VARIABLES
    pid,        \* the PID of src/pid.rs
    lib,        \* the PID of src/lib.rs, driven by the same calls
    output,     \* value returned by the latest step
    lib_output, \* value returned by the latest update
    panicked,   \* the latest call failed its assertion
    op,         \* the latest call: its name and arguments
    before,     \* pid as it stood when the latest call was made
    errors,     \* setpoint - measurement of every step call so far
    measurements, \* measurement passed to every step call so far
    outputs,    \* value returned by every step call so far
    args,       \* the arguments new was called with
    configs     \* number of configuration calls so far

vars == <<pid, lib, output, lib_output, panicked, op, before, errors,
          measurements, outputs, args, configs>>

NewArgs(kp, ki, kd, tau, sampling_time, sp) ==
    [kp |-> kp, ki |-> ki, kd |-> kd, tau |-> tau,
     sampling_time |-> sampling_time, setpoint |-> sp]

Call(name, a, b) == [name |-> name, a |-> a, b |-> b]

Init ==
    \E kp \in Kp, ki \in Ki, kd \in Kd, tau \in Tau,
       sampling_time \in SamplingTime, sp \in Setpoints :
        /\ pid = new(kp, ki, kd, tau, sampling_time, sp)
        /\ lib = lib_new(kp, ki, kd, tau, sampling_time, sp)
        /\ output = zero
        /\ lib_output = zero
        /\ panicked = FALSE
        /\ op = Call("new", zero, zero)
        /\ before = pid
        /\ errors = <<>>
        /\ measurements = <<>>
        /\ outputs = <<>>
        /\ args = NewArgs(kp, ki, kd, tau, sampling_time, sp)
        /\ configs = 0

Step(m) ==
    /\ Len(measurements) < MaxSteps
    /\ pid' = step(pid, m)
    /\ output' = StepOutput(pid, m)
    /\ lib' = update(lib, m)
    /\ lib_output' = UpdateOutput(lib, m)
    /\ panicked' = ~(/\ ClampAssert(pid.imin, pid.imax)
                     /\ ClampAssert(pid.omin, pid.omax))
    /\ op' = Call("step", m, zero)
    /\ before' = pid
    /\ errors' = Append(errors, StepError(pid, m))
    /\ measurements' = Append(measurements, m)
    /\ outputs' = Append(outputs, StepOutput(pid, m))
    /\ UNCHANGED <<args, configs>>

BoundIntegral(min, max) ==
    /\ configs < MaxConfig
    /\ configs' = configs + 1
    /\ pid' = bound_integral(pid, min, max)
    /\ lib' = lib_bound_integral(lib, min, max)
    /\ panicked' = ~BoundAssert(min, max)
    /\ op' = Call("bound_integral", min, max)
    /\ before' = pid
    /\ UNCHANGED <<output, lib_output, errors, measurements, outputs, args>>

BoundOutput(min, max) ==
    /\ configs < MaxConfig
    /\ configs' = configs + 1
    /\ pid' = bound_output(pid, min, max)
    /\ lib' = lib_bound_output(lib, min, max)
    /\ panicked' = ~BoundAssert(min, max)
    /\ op' = Call("bound_output", min, max)
    /\ before' = pid
    /\ UNCHANGED <<output, lib_output, errors, measurements, outputs, args>>

\* pid.setpoint = v (the field is public)
SetSetpoint(v) ==
    /\ configs < MaxConfig
    /\ configs' = configs + 1
    /\ pid' = [pid EXCEPT !.setpoint = v]
    /\ lib' = [lib EXCEPT !.setpoint = v]
    /\ panicked' = FALSE
    /\ op' = Call("setpoint", v, zero)
    /\ before' = pid
    /\ UNCHANGED <<output, lib_output, errors, measurements, outputs, args>>

Next ==
    \/ \E m \in Measurements : Step(m)
    \/ \E b \in IntegralBoundArgs : BoundIntegral(b[1], b[2])
    \/ \E b \in OutputBoundArgs : BoundOutput(b[1], b[2])
    \/ \E v \in Setpoints : SetSetpoint(v)

Spec == Init /\ [][Next]_vars

----------------------------------------------------------------------------
(* Output bounds only: new(..).bound_output(-10, 10), then steps and       *)
(* setpoint writes; bound_integral is never called.                        *)

MeasurementsC11 == {Num(-6), Num(0), Num(6), NaN}

InitC11 ==
    \E kp \in Kp, ki \in Ki, kd \in Kd, tau \in Tau,
       sampling_time \in SamplingTime, sp \in Setpoints :
        /\ before = new(kp, ki, kd, tau, sampling_time, sp)
        /\ pid = bound_output(before, Num(-10), Num(10))
        /\ lib = lib_bound_output(lib_new(kp, ki, kd, tau, sampling_time, sp),
                                  Num(-10), Num(10))
        /\ output = zero
        /\ lib_output = zero
        /\ panicked = FALSE
        /\ op = Call("bound_output", Num(-10), Num(10))
        /\ errors = <<>>
        /\ measurements = <<>>
        /\ outputs = <<>>
        /\ args = NewArgs(kp, ki, kd, tau, sampling_time, sp)
        /\ configs = 1

NextC11 ==
    \/ \E m \in MeasurementsC11 : Step(m)
    \/ \E v \in Setpoints : SetSetpoint(v)

SpecC11 == InitC11 /\ [][NextC11]_vars

----------------------------------------------------------------------------
(* The controller new(2.0, 0.5, 0.1, 0.2, 0.1, 10.0)                       *)

ArgsC14 == NewArgs(Num(2), <<1, 2>>, <<1, 10>>, <<1, 5>>, <<1, 10>>, Num(10))

InitC14 ==
    /\ pid = new(ArgsC14.kp, ArgsC14.ki, ArgsC14.kd, ArgsC14.tau,
                 ArgsC14.sampling_time, ArgsC14.setpoint)
    /\ lib = lib_new(ArgsC14.kp, ArgsC14.ki, ArgsC14.kd, ArgsC14.tau,
                     ArgsC14.sampling_time, ArgsC14.setpoint)
    /\ output = zero
    /\ lib_output = zero
    /\ panicked = FALSE
    /\ op = Call("new", zero, zero)
    /\ before = pid
    /\ errors = <<>>
    /\ measurements = <<>>
    /\ outputs = <<>>
    /\ args = ArgsC14
    /\ configs = 0

SpecC14 == InitC14 /\ [][Next]_vars

----------------------------------------------------------------------------
(* Construction over a wide range of arguments, up to values whose         *)
(* products overflow; the controller is then only stepped.                 *)

KpNew == {Num(0), Num(2)}

KiNew == {Num(0), Num(1), Num(800)}

KdNew == {Num(0), Num(1)}

TauNew == {Num(0), Num(3), Num(800)}

SamplingTimeNew == {Num(1), Num(2)}

InitNew ==
    \E kp \in KpNew, ki \in KiNew, kd \in KdNew, tau \in TauNew,
       sampling_time \in SamplingTimeNew, sp \in Setpoints :
        /\ pid = new(kp, ki, kd, tau, sampling_time, sp)
        /\ lib = lib_new(kp, ki, kd, tau, sampling_time, sp)
        /\ output = zero
        /\ lib_output = zero
        /\ panicked = FALSE
        /\ op = Call("new", zero, zero)
        /\ before = pid
        /\ errors = <<>>
        /\ measurements = <<>>
        /\ outputs = <<>>
        /\ args = NewArgs(kp, ki, kd, tau, sampling_time, sp)
        /\ configs = 0

NextNew == \E m \in Measurements : Step(m)

SpecNew == InitNew /\ [][NextNew]_vars

----------------------------------------------------------------------------
(* Both modules under every call, with an integral gain whose product with *)
(* the sampling time overflows.                                            *)

KiC16 == {Num(1), Num(800)}

InitC16 ==
    \E kp \in Kp, ki \in KiC16, kd \in Kd, tau \in Tau,
       sampling_time \in SamplingTime, sp \in Setpoints :
        /\ pid = new(kp, ki, kd, tau, sampling_time, sp)
        /\ lib = lib_new(kp, ki, kd, tau, sampling_time, sp)
        /\ output = zero
        /\ lib_output = zero
        /\ panicked = FALSE
        /\ op = Call("new", zero, zero)
        /\ before = pid
        /\ errors = <<>>
        /\ measurements = <<>>
        /\ outputs = <<>>
        /\ args = NewArgs(kp, ki, kd, tau, sampling_time, sp)
        /\ configs = 0

SpecC16 == InitC16 /\ [][Next]_vars

----------------------------------------------------------------------------
(* Vocabulary of the properties *)

\* number of step calls made so far
k == Len(measurements)

IsStep == op.name = "step"

IsSetter == op.name \in {"bound_integral", "bound_output"}

\* error of the j-th step call, 0 before the first
e(j) == IF j = 0 THEN zero ELSE errors[j]

\* measurement of the j-th step call, 0 before the first
m(j) == IF j = 0 THEN zero ELSE measurements[j]

\* the j-th step call was made with a finite measurement and a finite setpoint
FiniteSample(j) == j = 0 \/ (IsFinite(measurements[j]) /\ IsFinite(errors[j]))

Within(x, min, max) == Le(min, x) /\ Le(x, max)

DefaultBounds(self) ==
    /\ self.imin = neg_infinity
    /\ self.imax = infinity
    /\ self.omin = neg_infinity
    /\ self.omax = infinity

----------------------------------------------------------------------------
(* Properties *)

\* C1: after every step (update) call the stored previous error is that
\* call's setpoint - measurement and the stored previous measurement is that
\* call's measurement (stated for finite samples, where equality is meaningful).
C1_StoresPreviousSample ==
    (k > 0 /\ FiniteSample(k)) =>
        /\ pid.error = e(k)
        /\ pid.measurement = m(k)
        /\ lib.error = e(k)
        /\ lib.measurement = m(k)

\* C2: integral_state after the k-th step is
\* clamp(gain_i * (e_k + e_{k-1}) + I_{k-1}, integral_min, integral_max)
\* (stated for finite samples).
C2_TrapezoidalIntegral ==
    (IsStep /\ \A j \in 1..k : FiniteSample(j)) =>
        pid.integral =
            clamp(Add(Mul(before.i, Add(e(k), e(k - 1))), before.integral),
                  before.imin, before.imax)

\* C3: derivative_state after the k-th step is
\* gain_d * (m_k - m_{k-1}) + filter_coeff * D_{k-1} (stated for finite
\* samples).
C3_DerivativeOfMeasurementChange ==
    (IsStep /\ \A j \in 1..k : FiniteSample(j)) =>
        pid.derivative =
            Add(Mul(before.d, Sub(m(k), m(k - 1))),
                Mul(before.t, before.derivative))

\* C4 as claimed: right after every step integral_state lies within
\* [integral_min, integral_max] as they stood when the step ran.
C4_IntegralWithinBounds ==
    IsStep => Within(pid.integral, before.imin, before.imax)

\* C4 as amended: right after every step integral_state lies within
\* [integral_min, integral_max] as they stood when the step ran, or is NaN.
C4_IntegralWithinBoundsOrNaN ==
    IsStep =>
        \/ IsNaN(pid.integral)
        \/ Within(pid.integral, before.imin, before.imax)

\* a step whose accumulated integral rose above a finite integral_max and was
\* pinned there
C4_Witness ==
    /\ IsStep
    /\ IsFinite(before.imax)
    /\ before.integral = before.imax
    /\ Lt(zero, before.i)
    /\ Lt(zero, e(k))
    /\ pid.integral = before.imax

\* C5 as claimed: the value returned by every step lies within
\* [output_min, output_max] as last set by bound_output.
C5_OutputWithinBounds ==
    IsStep => Within(output, before.omin, before.omax)

\* C5 as amended: the value returned by every step lies within
\* [output_min, output_max] as last set by bound_output, or is NaN.
C5_OutputWithinBoundsOrNaN ==
    IsStep =>
        \/ IsNaN(output)
        \/ Within(output, before.omin, before.omax)

\* a step whose sum of the three terms exceeded a finite output_max and
\* returned output_max
C5_Witness ==
    /\ IsStep
    /\ IsFinite(before.omax)
    /\ Lt(before.omax,
          Add(Add(Mul(pid.p, e(k)), pid.integral), pid.derivative))
    /\ output = before.omax


C7_NoDerivativeKick ==
    (/\ IsStep
     /\ k >= 2
     /\ FiniteSample(k) /\ FiniteSample(k - 1)
     /\ e(k - 1) = zero
     /\ before.derivative = zero
     /\ m(k) = m(k - 1)
     /\ e(k) # zero) =>
        pid.derivative = zero

\* the first call on the controller is step(measurement) with
\* measurement == setpoint and the bounds at their defaults
FirstStepAtSetpoint ==
    /\ IsStep
    /\ k = 1
    /\ DefaultBounds(before)
    /\ IsFinite(before.setpoint)
    /\ m(1) = before.setpoint

\* C8 as claimed: on a fresh controller with default bounds a single step
\* with measurement == setpoint yields integral_state == 0 and returns 0.
C8_FirstStepAtSetpointIsZero ==
    FirstStepAtSetpoint => (pid.integral = zero /\ output = zero)

\* C8 as amended: on a fresh controller with default bounds a single step
\* with measurement == setpoint yields integral_state == 0 and returns
\* gain_d * setpoint, the derivative taken against the zero baseline.
C8_FirstStepAtSetpointIsDerivative ==
    FirstStepAtSetpoint =>
        /\ pid.integral = zero
        /\ pid.derivative = Mul(before.d, before.setpoint)
        /\ output = Mul(before.d, before.setpoint)

\* such a step with a nonzero setpoint and a nonzero derivative gain
C8_Witness ==
    /\ FirstStepAtSetpoint
    /\ before.setpoint # zero
    /\ before.d # zero
    /\ output # zero

\* C9: a bound setter called with min > max aborts on its assertion and
\* changes nothing: both bound pairs and every other field are as before.
C9_RejectedSetterChangesNothing ==
    (IsSetter /\ Lt(op.b, op.a)) =>
        /\ panicked
        /\ pid = before
        /\ <<lib.imin, lib.imax, lib.omin, lib.omax>> =
               <<before.imin, before.imax, before.omin, before.omax>>

\* bound_integral(1, -1) was rejected while the bounds (-1, 1) set by an
\* earlier call were active
C9_Witness ==
    /\ op = Call("bound_integral", Num(1), Num(-1))
    /\ panicked
    /\ before.imin = Num(-1)
    /\ before.imax = Num(1)
    /\ pid.imin = Num(-1)
    /\ pid.imax = Num(1)

\* C10: in every reachable state integral_min <= integral_max and
\* output_min <= output_max.
C10_BoundsOrdered ==
    /\ Le(pid.imin, pid.imax)
    /\ Le(pid.omin, pid.omax)
    /\ Le(lib.imin, lib.imax)
    /\ Le(lib.omin, lib.omax)

\* a rejected bound_output call after an accepted one, with steps made
C10_Witness ==
    /\ op = Call("bound_output", Num(1), Num(-1))
    /\ panicked
    /\ k > 0
    /\ IsFinite(pid.omin)
    /\ IsFinite(pid.omax)

\* C11: with only bound_output(-10, 10) set, step stores the accumulated
\* integral whatever the output does (no clamp, no feedback from the output
\* clamp), and in every run in which |integral_state| exceeds 10 every value
\* returned so far lies within [-10, 10].
C11_OutputClampIndependent ==
    /\ IsStep =>
           pid.integral =
               Add(Mul(before.i, Add(e(k), before.error)), before.integral)
    /\ (Lt(Num(10), pid.integral) \/ Lt(pid.integral, Num(-10))) =>
           \A j \in 1..k : Within(outputs[j], Num(-10), Num(10))

\* integral_state has grown above 10 while the step that took it there
\* returned the saturated output 10
C11_Witness ==
    /\ IsStep
    /\ pid.omin = Num(-10)
    /\ pid.omax = Num(10)
    /\ pid.imin = neg_infinity
    /\ pid.imax = infinity
    /\ Lt(Num(10), pid.integral)
    /\ IsFinite(pid.integral)
    /\ output = Num(10)

Gains(self) == <<self.p, self.i, self.d, self.t>>

\* C13: the four derived gains keep their construction-time values; step
\* leaves the gains, the setpoint and both bound pairs alone; bound_integral
\* changes nothing but the integral pair, bound_output nothing but the
\* output pair, a setpoint write nothing but the setpoint.
C13_FrameEffects ==
    /\ Gains(pid) = Gains(new(args.kp, args.ki, args.kd, args.tau,
                              args.sampling_time, args.setpoint))
    /\ <<lib.kp, lib.ki, lib.kd, lib.tc>> =
           Gains(new(args.kp, args.ki, args.kd, args.tau,
                     args.sampling_time, args.setpoint))
    /\ IsStep =>
           pid = [before EXCEPT !.error = pid.error,
                                !.measurement = pid.measurement,
                                !.integral = pid.integral,
                                !.derivative = pid.derivative]
    /\ op.name = "bound_integral" =>
           pid = [before EXCEPT !.imin = pid.imin, !.imax = pid.imax]
    /\ op.name = "bound_output" =>
           pid = [before EXCEPT !.omin = pid.omin, !.omax = pid.omax]
    /\ op.name = "setpoint" =>
           pid = [before EXCEPT !.setpoint = pid.setpoint]

\* a step that changed integral_state and derivative_state of a controller
\* whose integral bounds were set by an accepted bound_integral call
C13_Witness ==
    /\ IsStep
    /\ k >= 2
    /\ pid.integral # before.integral
    /\ pid.derivative # before.derivative
    /\ IsFinite(pid.integral)
    /\ IsFinite(pid.derivative)
    /\ IsFinite(pid.imin)
    /\ pid.omin = neg_infinity

\* the controller of ArgsC14 has only been stepped, at most three times,
\* always with the measurement 0.0
ScenarioC14 ==
    /\ args = ArgsC14
    /\ configs = 0
    /\ k <= 3
    /\ \A j \in 1..k : measurements[j] = zero

\* C14: new(2.0, 0.5, 0.1, 0.2, 0.1, 10.0) stepped three times with 0.0:
\* integral_state never decreases from one step to the next, the first step
\* leaves derivative_state at 0 and returns a value >= 20.0 and < 40.0.
C14_ConcreteScenario ==
    ScenarioC14 =>
        /\ IsStep => Le(before.integral, pid.integral)
        /\ k = 1 => pid.derivative = zero
        /\ k >= 1 => (Le(Num(20), outputs[1]) /\ Lt(outputs[1], Num(40)))

\* the third step of the scenario: integral_state went 1/4, 1/2, 3/4 and the
\* first output was 20.25
C14_Witness ==
    /\ ScenarioC14
    /\ k = 3
    /\ before.integral = <<1, 2>>
    /\ pid.integral = <<3, 4>>
    /\ outputs[1] = <<81, 4>>

\* x is the finite value n / d
RatEq(x, n, d) == IsFinite(x) /\ x[1] * d = n * x[2]

\* the gains of the two modules have the values the arguments of new give
\* them, computed in exact integer arithmetic
GainsAsSpecified ==
    LET ki  == args.ki
        kd  == args.kd
        tau == args.tau
        ts  == args.sampling_time
    IN  /\ pid.p = args.kp
        /\ lib.kp = args.kp
        /\ RatEq(pid.i, ki[1] * ts[1], 2 * ki[2] * ts[2])
        /\ RatEq(lib.ki, ki[1] * ts[1], 2 * ki[2] * ts[2])
        /\ RatEq(pid.d, -2 * kd[1], kd[2])
        /\ RatEq(lib.kd, -2 * kd[1], kd[2])
        /\ RatEq(pid.t, 2 * tau[1] * ts[2] - ts[1] * tau[2],
                        2 * tau[1] * ts[2] + ts[1] * tau[2])
        /\ RatEq(lib.tc, 2 * tau[1] * ts[2] - ts[1] * tau[2],
                         2 * tau[1] * ts[2] + ts[1] * tau[2])

\* new leaves the recurrence state at 0 and both bound pairs unbounded
FreshState ==
    op.name = "new" =>
        /\ pid.setpoint = args.setpoint
        /\ pid.error = zero
        /\ pid.measurement = zero
        /\ pid.integral = zero
        /\ pid.derivative = zero
        /\ DefaultBounds(pid)
        /\ DefaultBounds(lib)

\* a step made before any bound setter stores the accumulated integral and
\* returns the sum of the three terms, both unclamped
NeverClampedByDefault ==
    (IsStep /\ DefaultBounds(before)) =>
        /\ pid.integral =
               Add(Mul(before.i, Add(e(k), before.error)), before.integral)
        /\ output = Add(Add(Mul(pid.p, e(k)), pid.integral), pid.derivative)

\* no product or sum that new computes from its arguments overflows
NewStaysFinite ==
    /\ IsFinite(Mul(args.ki, args.sampling_time))
    /\ IsFinite(Mul(two, args.kd))
    /\ IsFinite(Add(Mul(two, args.tau), args.sampling_time))

\* C15 as claimed: new stores gain_p = kp, gain_i = (1/2)*ki*sampling_time,
\* gain_d = -2*kd, filter_coeff = (2*tau - sampling_time)/(2*tau +
\* sampling_time), zeroes the recurrence state and leaves both bound pairs
\* unbounded, so that no step clamps before a bound setter is called.
C15_NewStoresGains ==
    /\ GainsAsSpecified
    /\ FreshState
    /\ NeverClampedByDefault

\* C15 as amended: the same, for arguments none of whose products and sums
\* in new overflows.
C15_NewStoresGainsUnlessOverflow ==
    /\ NewStaysFinite => GainsAsSpecified
    /\ FreshState
    /\ NeverClampedByDefault

\* a controller built with a sampling time other than 2 and nonzero gains
\* and time constant, stepped with a nonzero error
C15_Witness ==
    /\ NewStaysFinite
    /\ args.sampling_time = Num(1)
    /\ args.ki # zero
    /\ args.kd # zero
    /\ args.tau # zero
    /\ IsStep
    /\ e(k) # zero
    /\ IsFinite(output)
    /\ output # zero

\* every field of lib.rs's controller has the value of the corresponding
\* field of pid.rs's, and the latest outputs agree
Corresponds ==
    /\ lib.setpoint = pid.setpoint
    /\ lib.error = pid.error
    /\ lib.integral = pid.integral
    /\ lib.derivative = pid.derivative
    /\ lib.measurement = pid.measurement
    /\ lib.kp = pid.p
    /\ lib.ki = pid.i
    /\ lib.kd = pid.d
    /\ lib.tc = pid.t
    /\ lib.imin = pid.imin
    /\ lib.imax = pid.imax
    /\ lib.omin = pid.omin
    /\ lib.omax = pid.omax
    /\ lib_output = output

\* C16 as claimed: driven by the same calls, the controllers of lib.rs and
\* pid.rs hold corresponding field values after every operation and return
\* the same output at every step.
C16_SameController == Corresponds

\* C16 as amended: the same, for controllers built with an integral gain
\* whose product with the sampling time does not overflow.
C16_SameControllerUnlessOverflow ==
    IsFinite(Mul(args.ki, args.sampling_time)) => Corresponds

\* both controllers, built without overflow, have been given both bound pairs
\* and stepped twice to a finite nonzero integral and output
C16_Witness ==
    /\ IsFinite(Mul(args.ki, args.sampling_time))
    /\ IsStep
    /\ k >= 2
    /\ IsFinite(lib.imin)
    /\ IsFinite(lib.omax)
    /\ IsFinite(lib_output)
    /\ lib_output # zero
    /\ lib.integral # zero
    /\ lib.derivative # zero

\* an accepted bound setter stores exactly its two arguments as the pair it
\* names and leaves every other field, the integral among them, as it was
SetterReplacesPair ==
    /\ (op'.name = "bound_integral" /\ ~panicked') =>
           pid' = [pid EXCEPT !.imin = op'.a, !.imax = op'.b]
    /\ (op'.name = "bound_output" /\ ~panicked') =>
           pid' = [pid EXCEPT !.omin = op'.a, !.omax = op'.b]

\* C17 as claimed: a successful bound_integral(a, b) or bound_output(a, b)
\* replaces the previous pair and leaves integral_state untouched, and the
\* step that follows it brings integral_state into [a, b], respectively
\* returns an output within [a, b], whatever the earlier pair was.
C17_SetterActsOnNextStep ==
    [][ /\ SetterReplacesPair
        /\ (op.name = "bound_integral" /\ ~panicked /\ op'.name = "step") =>
               Within(pid'.integral, op.a, op.b)
        /\ (op.name = "bound_output" /\ ~panicked /\ op'.name = "step") =>
               Within(output', op.a, op.b)
      ]_vars

\* C17 as amended: the same, except that the step that follows may store a
\* NaN integral, respectively return a NaN output, instead.
C17_SetterActsOnNextStepOrNaN ==
    [][ /\ SetterReplacesPair
        /\ (op.name = "bound_integral" /\ ~panicked /\ op'.name = "step") =>
               (Within(pid'.integral, op.a, op.b) \/ IsNaN(pid'.integral))
        /\ (op.name = "bound_output" /\ ~panicked /\ op'.name = "step") =>
               (Within(output', op.a, op.b) \/ IsNaN(output'))
      ]_vars

\* a step has started from an integral that two earlier steps had carried
\* outside the pair set since, and has brought it within that pair
C17_Witness ==
    /\ IsStep
    /\ k = 3
    /\ IsFinite(before.imin)
    /\ IsFinite(before.integral)
    /\ Lt(before.imax, before.integral)
    /\ Within(pid.integral, before.imin, before.imax)

\* no step aborts, and both clamp calls of the next step will find their
\* bounds in order
StepNeverAborts ==
    /\ ClampAssert(pid.imin, pid.imax)
    /\ ClampAssert(pid.omin, pid.omax)
    /\ IsStep => ~panicked

\* C18 as claimed: step never aborts, since in every reachable state both
\* clamp calls of step are made with lower <= upper; the only abort comes
\* from a bound setter called with min > max.
C18_OnlySetterAbortsOnGreater ==
    /\ StepNeverAborts
    /\ panicked => (IsSetter /\ Lt(op.b, op.a))

\* C18 as amended: the same, the only abort coming from a bound setter
\* called with arguments for which min <= max is false: min > max, or either
\* of them NaN.
C18_OnlySetterAbortsOnUnordered ==
    /\ StepNeverAborts
    /\ panicked => (IsSetter /\ ~Le(op.a, op.b))

\* a step has run to its end with both bound pairs set by the caller
C18_Witness ==
    /\ IsStep
    /\ ~panicked
    /\ IsFinite(before.imin)
    /\ IsFinite(before.omin)
    /\ IsFinite(output)
    /\ output # zero

============================================================================
